---- MODULE Spec2Model ----
(***************************************************************************)
(* Model of the Mint scraper AppDaemon app: the freshness-gated cache      *)
(* (MintScraper.scrape_or_load / scrape), the account normaliser           *)
(* (_parse_mint_data and its helpers) and the app's callbacks              *)
(* (MintScrapperApp.initialize / send_mqtt_data).                          *)
(*                                                                         *)
(* Python values are tagged records: a str is a sequence of one-character  *)
(* strings, a dict is a function from its keys to values, so that          *)
(* `key in d` is `key \in DOMAIN d`.  JSON text is represented by the      *)
(* value tree it encodes.                                                  *)
(***************************************************************************)
EXTENDS Integers, Sequences, FiniteSets, TLC

(* ---------------------------------------------------------------- bounds *)

\* Longest snapshot (number of account records) a fetch returns or the
\* cache file initially holds.
MaxAccounts == 2

\* Number of steps the model's clock takes.
MaxTicks == 3

\* Most keyword arguments one drawn call of _build_discovery_payload supplies.
MaxSupplied == 3

(* ------------------------------------------------------- program constants *)

\* divmod(age, 3600)
SecondsPerHour == 3600

\* if age_in_hours > 4
MaxAgeHours == 4

(* ---------------------------------------------------------- Python values *)

None == [t |-> "none"]
S(chars) == [t |-> "str", v |-> chars]
B(b) == [t |-> "bool", v |-> b]
N(n) == [t |-> "num", v |-> n]
L(items) == [t |-> "list", v |-> items]
D(f) == [t |-> "dict", v |-> f]

\* Python truthiness of a value: None, "", False, 0, [] and {} are falsy.
Truthy(x) ==
    CASE x.t = "none" -> FALSE
      [] x.t = "str"  -> x.v # <<>>
      [] x.t = "bool" -> x.v
      [] x.t = "num"  -> x.v # 0
      [] x.t = "list" -> x.v # <<>>
      [] x.t = "dict" -> DOMAIN x.v # {}

\* The decimal digits of a natural number, as str() prints it.
RECURSIVE Digits(_)
Digits(n) ==
    LET d == <<"0", "1", "2", "3", "4", "5", "6", "7", "8", "9">>[(n % 10) + 1]
    IN  IF n < 10 THEN <<d>> ELSE Digits(n \div 10) \o <<d>>

\* What an f-string interpolates for a value: the text of a str, the
\* digits of a number.
Fmt(x) ==
    CASE x.t = "str" -> x.v
      [] x.t = "num" -> Digits(x.v)
      [] x.t = "bool" -> IF x.v THEN <<"T", "r", "u", "e">>
                                ELSE <<"F", "a", "l", "s", "e">>
      [] OTHER -> <<"N", "o", "n", "e">>

UpperChars ==
    <<"A", "B", "C", "D", "E", "F", "G", "H", "I", "J", "K", "L", "M",
      "N", "O", "P", "Q", "R", "S", "T", "U", "V", "W", "X", "Y", "Z">>

LowerChars ==
    <<"a", "b", "c", "d", "e", "f", "g", "h", "i", "j", "k", "l", "m",
      "n", "o", "p", "q", "r", "s", "t", "u", "v", "w", "x", "y", "z">>

UpperToLower ==
    [ch \in {UpperChars[i] : i \in DOMAIN UpperChars} |->
        LowerChars[CHOOSE i \in DOMAIN UpperChars : UpperChars[i] = ch]]

\* str.lower()
Lower(str) ==
    [i \in DOMAIN str |->
        IF str[i] \in DOMAIN UpperToLower THEN UpperToLower[str[i]] ELSE str[i]]

\* str.replace(" ", "_")
ReplaceSpace(str) == [i \in DOMAIN str |-> IF str[i] = " " THEN "_" ELSE str[i]]

\* str.capitalize(): first character upper-cased, the rest lower-cased.
Capitalize(str) ==
    [i \in DOMAIN str |->
        IF i = 1
        THEN IF \E u \in DOMAIN UpperToLower : UpperToLower[u] = str[i]
             THEN CHOOSE u \in DOMAIN UpperToLower : UpperToLower[u] = str[i]
             ELSE str[i]
        ELSE Lower(str)[i]]

(* ------------------------------------------------------------ MintScraper *)

EligibleTypes == {<<"B", "a", "n", "k", "A", "c", "c", "o", "u", "n", "t">>,
                  <<"I", "n", "v", "e", "s", "t", "m", "e", "n", "t",
                    "A", "c", "c", "o", "u", "n", "t">>}

TopicKeys == {"state_topic", "attribute_topic", "discovery_topic_balance",
              "discovery_topic_update", "discovery_topic_error"}

\* The f-strings with the id left out of the state and attribute topics.
TopicTemplate_without_id(account, key) ==
    LET fi   == Fmt(account.v["fiName"])
        name == Fmt(account.v["name"])
        id   == Fmt(account.v["id"])
    IN  CASE key = "state_topic" ->
               <<"m", "i", "n", "t", "/", "d", "a", "t", "a", "/">> \o fi \o <<"/">> \o name
          [] key = "attribute_topic" ->
               <<"m", "i", "n", "t", "/", "d", "a", "t", "a", "/">> \o fi \o <<"/">> \o name \o <<"_", "a", "t", "t", "r", "i", "b", "u", "t", "e", "s">>
          [] OTHER -> <<"h", "o", "m", "e", "a", "s", "s", "i", "s", "t", "a", "n", "t", "/">> \o id \o <<"/">> \o <<key>>

\* The five f-strings of _build_topics, before normalisation.
TopicTemplate(account, key) ==
    LET fi   == Fmt(account.v["fiName"])
        name == Fmt(account.v["name"])
        id   == Fmt(account.v["id"])
    IN  CASE key = "state_topic" ->
               <<"m", "i", "n", "t", "/", "d", "a", "t", "a", "/">> \o fi
                 \o <<"/">> \o name \o <<"_">> \o id
          [] key = "attribute_topic" ->
               <<"m", "i", "n", "t", "/", "d", "a", "t", "a", "/">> \o fi
                 \o <<"/">> \o name
                 \o <<"_", "a", "t", "t", "r", "i", "b", "u", "t", "e", "s", "_">>
                 \o id
          [] key = "discovery_topic_balance" ->
               <<"h", "o", "m", "e", "a", "s", "s", "i", "s", "t", "a", "n", "t",
                 "/", "s", "e", "n", "s", "o", "r", "/", "m", "i", "n", "t", "_">>
                 \o id
                 \o <<"/", "a", "c", "c", "o", "u", "n", "t", "_", "b", "a", "l",
                      "a", "n", "c", "e", "/", "c", "o", "n", "f", "i", "g">>
          [] key = "discovery_topic_update" ->
               <<"h", "o", "m", "e", "a", "s", "s", "i", "s", "t", "a", "n", "t",
                 "/", "s", "e", "n", "s", "o", "r", "/", "m", "i", "n", "t", "_">>
                 \o id
                 \o <<"/", "l", "a", "s", "t", "_", "u", "p", "d", "a", "t", "e",
                      "/", "c", "o", "n", "f", "i", "g">>
          [] key = "discovery_topic_error" ->
               <<"h", "o", "m", "e", "a", "s", "s", "i", "s", "t", "a", "n", "t",
                 "/", "b", "i", "n", "a", "r", "y", "_", "s", "e", "n", "s", "o",
                 "r", "/", "m", "i", "n", "t", "_">>
                 \o id
                 \o <<"/", "e", "r", "r", "o", "r", "/", "c", "o", "n", "f", "i", "g">>

\* value.replace(" ", "_").lower() applied to every topic.
_build_topics(account) ==
    [key \in TopicKeys |-> S(Lower(ReplaceSpace(TopicTemplate(account, key))))]

\* The allow-list as the source spells it: the missing comma after
\* "investmentType" makes Python concatenate it with "name" into one key.
keys_to_extract ==
    {"availableBalance", "cpAccountNumberLast4", "currency", "currentBalance",
     "fiName", "interestRate", "investmentTypename", "type", "value"}

_build_attribute_payload(account) ==
    D([key \in keys_to_extract \cap DOMAIN account.v |-> account.v[key]])

\* dict[key] = value
Put(d, key, value) == [k \in DOMAIN d \cup {key} |-> IF k = key THEN value ELSE d[k]]

\* The keyword parameters of _build_discovery_payload and their defaults.
DiscoveryDefaults ==
    [state_topic |-> S(<<>>), entity_category |-> None, state_class |-> None,
     sensor_type |-> S(<<"s", "e", "n", "s", "o", "r">>), object_id |-> None,
     expire_after |-> None, force_update |-> B(FALSE), payload_on |-> None,
     payload_off |-> None, device_class |-> None, unit_of_measurement |-> None,
     value_template |-> S(<<>>), json_attributes_template |-> None,
     json_attributes_topic |-> None, icon |-> None]

\* The keys every discovery payload has.
RequiredKeys == {"device", "name", "unique_id", "state_topic", "value_template",
                 "force_update"}

\* The parameters behind an `if <parameter>:` that sets the key of the same
\* name to the parameter's value.
OptionalKeys == {"unit_of_measurement", "icon", "payload_off", "entity_category",
                 "object_id", "state_class", "expire_after", "payload_on",
                 "device_class"}

\* The value of parameter k in a call with keyword arguments kw: a parameter
\* not supplied takes its default.
Arg(kw, k) == IF k \in DOMAIN kw THEN kw[k] ELSE DiscoveryDefaults[k]

\* The keys of the payload with every test written `is not None`: an empty
\* or False argument sets its key too.
DiscoveryKeys_if_not_none(kw) ==
    RequiredKeys
        \cup {k \in OptionalKeys : Arg(kw, k) # None}
        \cup IF Arg(kw, "json_attributes_template") # None
             THEN {"json_attributes_topic", "json_attributes_template"}
             ELSE {}

\* The keys of the payload: the required ones, each optional key whose
\* parameter is truthy, and both json_attributes keys when
\* json_attributes_template is truthy.
DiscoveryKeys(kw) ==
    RequiredKeys
        \cup {k \in OptionalKeys : Truthy(Arg(kw, k))}
        \cup IF Truthy(Arg(kw, "json_attributes_template"))
             THEN {"json_attributes_topic", "json_attributes_template"}
             ELSE {}

\* kw: the keyword arguments the caller supplies, a function from their
\* names to their values.
_build_discovery_payload(account_data, sensor_suffix, kw) ==
    D([k \in DiscoveryKeys(kw) |->
        CASE k = "device" ->
               D([identifiers  |-> L(<<account_data.v["fiLoginId"]>>),
                  manufacturer |-> S(<<"M", "i", "n", "t", " ", "S", "c", "r", "a", "p", "e", "r">>),
                  model        |-> S(<<"B", "a", "n", "k", " ", "A", "c", "c", "o", "u", "n", "t">>),
                  name         |-> S(Fmt(account_data.v["fiName"])),
                  sw_version   |-> S(<<>>)])
          [] k = "name" ->
               S(Capitalize(account_data.v["name"].v) \o <<" ">> \o sensor_suffix)
          [] k = "unique_id" ->
               S(ReplaceSpace(Fmt(account_data.v["id"]) \o <<"_">> \o sensor_suffix))
          [] k = "json_attributes_topic" ->
               IF Truthy(Arg(kw, "json_attributes_topic"))
               THEN Arg(kw, "json_attributes_topic")
               ELSE Arg(kw, "state_topic")
          [] OTHER -> Arg(kw, k)])

_get_icon(account) ==
    IF account.v["type"] = S(<<"B", "a", "n", "k", "A", "c", "c", "o", "u", "n", "t">>)
    THEN IF account.v["bankAccountType"] = S(<<"C", "H", "E", "C", "K", "I", "N", "G">>)
         THEN S(<<"m", "d", "i", ":", "c", "h", "e", "c", "k", "b", "o", "o", "k">>)
         ELSE S(<<"m", "d", "i", ":", "p", "i", "g", "g", "y", "-", "b", "a", "n", "k">>)
    ELSE IF account.v["type"] = S(<<"I", "n", "v", "e", "s", "t", "m", "e", "n", "t", "A", "c", "c", "o", "u", "n", "t">>)
         THEN S(<<"m", "d", "i", ":", "c", "h", "a", "r", "t", "-", "l", "i", "n", "e">>)
         ELSE None

\* f'mint {account["fiName"]} {account["name"]} <what>'
ObjectId(account, what) ==
    S(<<"m", "i", "n", "t", " ">> \o Fmt(account.v["fiName"]) \o <<" ">> \o Fmt(account.v["name"])
        \o <<" ">> \o what)

_build_payloads(account, topics) ==
    [discovery_payload_balance |->
        _build_discovery_payload(account, <<"b", "a", "l", "a", "n", "c", "e">>,
            [object_id |-> ObjectId(account, <<"b", "a", "l", "a", "n", "c", "e">>),
             state_topic |-> topics["state_topic"],
             state_class |-> S(<<"m", "e", "a", "s", "u", "r", "e", "m", "e", "n", "t">>),
             value_template |-> S(<<"{{value_json.get('availableBalance', value_json.get('currentBalance'))}}">>),
             unit_of_measurement |-> account.v["currency"],
             json_attributes_template |-> S(<<"{{value_json | tojson}}">>),
             json_attributes_topic |-> topics["attribute_topic"],
             force_update |-> B(TRUE),
             icon |-> _get_icon(account)]),
     discovery_payload_update |->
        _build_discovery_payload(account, <<"u", "p", "d", "a", "t", "e", "d">>,
            [state_topic |-> topics["state_topic"],
             device_class |-> S(<<"t", "i", "m", "e", "s", "t", "a", "m", "p">>),
             object_id |-> ObjectId(account, <<"l", "a", "s", "t", " ", "u", "p", "d", "a", "t", "e">>),
             value_template |-> S(<<"{{ value_json.metaData.lastUpdatedDate | as_datetime }}">>),
             icon |-> S(<<"m", "d", "i", ":", "u", "p", "d", "a", "t", "e">>)]),
     discovery_payload_error |->
        _build_discovery_payload(account, <<"e", "r", "r", "o", "r">>,
            [entity_category |-> S(<<"d", "i", "a", "g", "n", "o", "s", "t", "i", "c">>),
             state_topic |-> topics["attribute_topic"],
             sensor_type |-> S(<<"b", "i", "n", "a", "r", "y", "_", "s", "e", "n", "s", "o", "r">>),
             object_id |-> ObjectId(account, <<"e", "r", "r", "o", "r">>),
             value_template |-> S(<<"{{value_json.isError }}">>),
             payload_on |-> S(<<"t", "r", "u", "e">>),
             payload_off |-> S(<<"f", "a", "l", "s", "e">>),
             icon |-> S(<<"m", "d", "i", ":", "a", "l", "e", "r", "t", "-", "c", "i", "r", "c", "l", "e">>)]),
     state_payload |-> account,
     attribute_payload |-> _build_attribute_payload(account)]

\* topics.update(payloads): the keys of both, the payloads' winning.
Update(d, e) == [k \in DOMAIN d \cup DOMAIN e |-> IF k \in DOMAIN e THEN e[k] ELSE d[k]]

\* The loop with data.insert(0, topics) for data.append(topics).
RECURSIVE _parse_mint_data_prepending(_)
_parse_mint_data_prepending(raw_data) ==
    IF raw_data = <<>> THEN <<>>
    ELSE LET x == Head(raw_data)
             topics == _build_topics(x)
         IN  IF x.v["type"].v \in EligibleTypes
             THEN _parse_mint_data_prepending(Tail(raw_data))
                      \o <<D(Update(topics, _build_payloads(x, topics)))>>
             ELSE _parse_mint_data_prepending(Tail(raw_data))

\* The loop of _parse_mint_data, one entry at a time from the front.
RECURSIVE _parse_mint_data(_)
_parse_mint_data(raw_data) ==
    IF raw_data = <<>> THEN <<>>
    ELSE LET x == Head(raw_data)
             topics == _build_topics(x)
         IN  IF x.v["type"].v \in EligibleTypes
             THEN <<D(Update(topics, _build_payloads(x, topics)))>>
                      \o _parse_mint_data(Tail(raw_data))
             ELSE _parse_mint_data(Tail(raw_data))

(* ------------------------------------------------------- the cache file *)

\* mint.json: whether exists("mint.json"), and the text it holds.
NoFile == [exists |-> FALSE, text |-> <<>>]
File(text) == [exists |-> TRUE, text |-> text]

\* JSON text is a sequence of tokens: the brackets of a list and, for each
\* entry of a list or for a dict, the token of its whole text, represented by
\* the value it encodes.
LBracket == [bracket |-> "["]
RBracket == [bracket |-> "]"]

\* json.dumps
json_dumps(x) == IF x.t = "list" THEN <<LBracket>> \o x.v \o <<RBracket>> ELSE <<x>>

\* Whether a text is the complete text of a list, or of one dict.
IsListText(text) ==
    /\ Len(text) >= 2
    /\ text[1] = LBracket
    /\ text[Len(text)] = RBracket
    /\ \A i \in 2..(Len(text) - 1) : text[i] \notin {LBracket, RBracket}

IsDictText(text) == Len(text) = 1 /\ text[1] \notin {LBracket, RBracket}

\* json.load: the value a complete text encodes; any other text (an empty
\* file, a text cut short, one text written over another) raises.
json_load(text) ==
    CASE IsListText(text) ->
           [raised |-> "none", value |-> L(SubSeq(text, 2, Len(text) - 1))]
      [] IsDictText(text) -> [raised |-> "none", value |-> text[1]]
      [] OTHER -> [raised |-> "JSONDecodeError"]

\* load_raw_scrape_data: the entries of the list the file holds.
load_raw_scrape_data(file) ==
    LET r == json_load(file.text)
    IN  IF r.raised # "none" THEN r ELSE [raised |-> "none", value |-> r.value.v]

\* write_data_to_disk: open("mint.json", "w") and write the whole text.
write_data_to_disk(raw_data) == File(json_dumps(L(raw_data)))

(* ------------------------------------------------------------ timestamps *)

DigitChars == <<"0", "1", "2", "3", "4", "5", "6", "7", "8", "9">>

DigitValue(ch) == (CHOOSE i \in DOMAIN DigitChars : DigitChars[i] = ch) - 1

IsDigit(ch) == \E i \in DOMAIN DigitChars : DigitChars[i] = ch

\* The timestamps of the model are the texts "HH:MM" of one day, standing
\* for the ISO-8601 text of that instant.
IsIso(str) ==
    /\ Len(str) = 5
    /\ str[3] = ":"
    /\ \A i \in {1, 2, 4, 5} : IsDigit(str[i])

\* The upstream's lastUpdatedDate for an instant t, in seconds.
IsoFormat(t) ==
    LET h == t \div 3600
        m == (t % 3600) \div 60
    IN  <<DigitChars[(h \div 10) + 1], DigitChars[(h % 10) + 1], ":",
          DigitChars[(m \div 10) + 1], DigitChars[(m % 10) + 1]>>

\* isoparse(entry["metaData"]["lastUpdatedDate"]).timestamp()
isoparse(entry) ==
    IF \/ "metaData" \notin DOMAIN entry.v
       \/ "lastUpdatedDate" \notin DOMAIN entry.v["metaData"].v
    THEN [raised |-> "KeyError"]
    ELSE LET str == entry.v["metaData"].v["lastUpdatedDate"]
         IN  IF str.t = "str" /\ IsIso(str.v)
             THEN [raised |-> "none",
                   timestamp |-> (DigitValue(str.v[1]) * 10 + DigitValue(str.v[2])) * 3600
                               + (DigitValue(str.v[4]) * 10 + DigitValue(str.v[5])) * 60]
             ELSE [raised |-> "ValueError"]

Max(a, b) == IF a >= b THEN a ELSE b

\* The loop with the timestamp read inside a try/except that skips the entry.
RECURSIVE MaxTime_skipping(_, _)
MaxTime_skipping(raw_data, max_time) ==
    IF raw_data = <<>>
    THEN [raised |-> "none", max_time |-> max_time]
    ELSE LET t == isoparse(Head(raw_data))
         IN  IF t.raised # "none"
             THEN MaxTime_skipping(Tail(raw_data), max_time)
             ELSE MaxTime_skipping(Tail(raw_data), Max(max_time, t.timestamp))

\* The loop of scrape_or_load over the loaded entries: the running maximum,
\* or the exception of the first entry that has no parseable timestamp.
RECURSIVE MaxTime(_, _)
MaxTime(raw_data, max_time) ==
    IF raw_data = <<>>
    THEN [raised |-> "none", max_time |-> max_time]
    ELSE LET t == isoparse(Head(raw_data))
         IN  IF t.raised # "none"
             THEN [raised |-> t.raised]
             ELSE MaxTime(Tail(raw_data), Max(max_time, t.timestamp))

(* ------------------------------------------------------ scrape and reuse *)

\* What mint.get_account_data does in one call: it raises, or returns a list.
UpstreamError == [failed |-> TRUE]

\* scrape() that returns the upstream's result without writing it.
scrape_without_write(file, upstream) ==
    IF upstream = UpstreamError
    THEN [raised |-> "FetchError", file |-> file, fetches |-> 1]
    ELSE [raised |-> "none", file |-> file, raw_data |-> upstream.value, fetches |-> 1]

\* scrape(): the result of the upstream is written to disk and returned; an
\* upstream exception propagates before anything is written.
scrape(file, upstream) ==
    IF upstream = UpstreamError
    THEN [raised |-> "FetchError", file |-> file, fetches |-> 1]
    ELSE [raised |-> "none", file |-> write_data_to_disk(upstream.value),
          raw_data |-> upstream.value, fetches |-> 1]

\* Decide with the age compared by >= : a snapshot exactly MaxAgeHours whole
\* hours old is scraped again.
Decide_at_threshold(file, now) ==
    IF file.exists
    THEN LET loaded == load_raw_scrape_data(file)
         IN  IF loaded.raised # "none"
             THEN [branch |-> "raise", raised |-> loaded.raised]
             ELSE LET m == MaxTime(loaded.value, 0)
                  IN  IF m.raised # "none"
                      THEN [branch |-> "raise", raised |-> m.raised]
                      ELSE IF (now - m.max_time) \div SecondsPerHour >= MaxAgeHours
                           THEN [branch |-> "scrape"]
                           ELSE [branch |-> "load", raw_data |-> loaded.value]
    ELSE [branch |-> "scrape"]

\* The branch scrape_or_load takes on the file as it is at time now:
\* "scrape" (no file, or a snapshot more than MaxAgeHours whole hours old),
\* "load" with the entries read, or "raise" with the exception of the read or
\* of the age computation.
Decide(file, now) ==
    IF file.exists
    THEN LET loaded == load_raw_scrape_data(file)
         IN  IF loaded.raised # "none"
             THEN [branch |-> "raise", raised |-> loaded.raised]
             ELSE LET m == MaxTime(loaded.value, 0)
                  IN  IF m.raised # "none"
                      THEN [branch |-> "raise", raised |-> m.raised]
                      ELSE LET age == now - m.max_time
                               age_in_hours == age \div SecondsPerHour
                           IN  IF age_in_hours > MaxAgeHours
                               THEN [branch |-> "scrape"]
                               ELSE [branch |-> "load", raw_data |-> loaded.value]
    ELSE [branch |-> "scrape"]

\* scrape_or_load(): the cache file, self.mint_data, the number of fetches
\* made and the exception raised ("none" for a normal return).
scrape_or_load(file, old_mint_data, now, upstream) ==
    LET d == Decide(file, now)
        s == scrape(file, upstream)
    IN  CASE d.branch = "raise" ->
               [file |-> file, mint_data |-> old_mint_data, fetches |-> 0,
                raised |-> d.raised]
          [] d.branch = "load" ->
               [file |-> file, mint_data |-> _parse_mint_data(d.raw_data),
                fetches |-> 0, raised |-> "none"]
          [] d.branch = "scrape" /\ s.raised # "none" ->
               [file |-> s.file, mint_data |-> old_mint_data, fetches |-> s.fetches,
                raised |-> s.raised]
          [] d.branch = "scrape" /\ s.raised = "none" ->
               [file |-> s.file, mint_data |-> _parse_mint_data(s.raw_data),
                fetches |-> s.fetches, raised |-> "none"]

(* -------------------------------------------------------- MintScrapperApp *)

RequiredArgs == {"mint_mfa_token", "mint_password", "mint_email"}

\* _check_args: False when a required argument is missing (and a log line
\* per missing argument).
_check_args(given) == RequiredArgs \subseteq given

\* The lookups made with self.args.get(...): a missing key raises nothing.
ArgsLookup_get(given) == "none"

\* The three self.args[...] lookups of initialize: the first missing key
\* raises KeyError.
ArgsLookup(given) == IF RequiredArgs \subseteq given THEN "none" ELSE "KeyError"

\* _convert_bool_to_string: bools become "true"/"false", lists and dicts are
\* rebuilt member by member, anything else is returned as it is.
RECURSIVE _convert_bool_to_string(_)
_convert_bool_to_string(obj) ==
    CASE obj.t = "bool" -> S(Lower(Fmt(obj)))
      [] obj.t = "list" -> L([i \in DOMAIN obj.v |-> _convert_bool_to_string(obj.v[i])])
      [] obj.t = "dict" -> D([k \in DOMAIN obj.v |-> _convert_bool_to_string(obj.v[k])])
      [] OTHER -> obj

\* One mqtt_publish(topic, payload) call.
Publish(topic, payload) ==
    [topic |-> topic, payload |-> json_dumps(_convert_bool_to_string(payload))]

\* The loop body with the state published before the discovery messages.
SendEntry_state_first(entry) ==
    <<Publish(entry.v["state_topic"], entry.v["state_payload"]),
      Publish(entry.v["discovery_topic_balance"], entry.v["discovery_payload_balance"]),
      Publish(entry.v["discovery_topic_update"], entry.v["discovery_payload_update"]),
      Publish(entry.v["discovery_topic_error"], entry.v["discovery_payload_error"]),
      Publish(entry.v["attribute_topic"], entry.v["attribute_payload"])>>

\* The body of the loop of send_mqtt_data for one entry: its publishes, in
\* the order the calls are made.
SendEntry(entry) ==
    <<Publish(entry.v["discovery_topic_balance"], entry.v["discovery_payload_balance"]),
      Publish(entry.v["discovery_topic_update"], entry.v["discovery_payload_update"]),
      Publish(entry.v["discovery_topic_error"], entry.v["discovery_payload_error"]),
      Publish(entry.v["state_topic"], entry.v["state_payload"]),
      Publish(entry.v["attribute_topic"], entry.v["attribute_payload"])>>

\* send_mqtt_data: every mqtt_publish call of one run, in order.
RECURSIVE send_mqtt_data(_)
send_mqtt_data(data) ==
    IF data = <<>> THEN <<>>
    ELSE SendEntry(Head(data)) \o send_mqtt_data(Tail(data))

(* ------------------------------------------------------------ the inputs *)

\* The accounts the upstream knows: a checking account, an investment
\* account and a credit card (a type the normaliser drops).
Checking ==
    [id |-> S(<<"1">>), name |-> S(<<"M", "y", " ", "C">>), fiName |-> S(<<"B", "k">>),
     fiLoginId |-> S(<<"7">>), type |-> S(<<"B", "a", "n", "k", "A", "c", "c", "o", "u", "n", "t">>),
     bankAccountType |-> S(<<"C", "H", "E", "C", "K", "I", "N", "G">>), currency |-> S(<<"U", "S", "D">>),
     currentBalance |-> N(100), isError |-> B(FALSE)]

Investment ==
    [id |-> S(<<"2">>), name |-> S(<<"i", "r", "a">>), fiName |-> S(<<"B", "k">>),
     fiLoginId |-> S(<<"7">>), type |-> S(<<"I", "n", "v", "e", "s", "t", "m", "e", "n", "t", "A", "c", "c", "o", "u", "n", "t">>),
     currency |-> S(<<"U", "S", "D">>), value |-> N(5), isError |-> B(TRUE)]

Credit ==
    [id |-> S(<<"3">>), name |-> S(<<"c", "c">>), fiName |-> S(<<"X">>),
     fiLoginId |-> S(<<"8">>), type |-> S(<<"C", "r", "e", "d", "i", "t", "A", "c", "c", "o", "u", "n", "t">>),
     currency |-> S(<<"U", "S", "D">>), currentBalance |-> N(0)]

\* An account record with its metaData.
Entry(base, meta) == D(Put(base, "metaData", meta))

\* metaData with a timestamp text for the instant t.
UpdatedAt(t) == D([lastUpdatedDate |-> S(IsoFormat(t))])

\* metaData whose lastUpdatedDate is no timestamp, and metaData without one.
Unparseable == D([lastUpdatedDate |-> S(<<"n", "/", "a">>)])
Undated == D([createdDate |-> S(<<"0", "0", ":", "0", "0">>)])

\* The records the upstream returns at time now: the checking and the
\* investment account as just updated, and a credit card that carries no
\* lastUpdatedDate.
UpstreamEntries(now) ==
    {Entry(Checking, UpdatedAt(now)), Entry(Investment, UpdatedAt(now)),
     Entry(Credit, Undated)}

\* The records the cache file can hold when the app is loaded: accounts
\* updated at 00:00 and 00:30, one with an unparseable timestamp and one
\* with none.
InitialEntries ==
    {Entry(Checking, UpdatedAt(0)), Entry(Investment, UpdatedAt(SecondsPerHour \div 2)),
     Entry(Investment, Unparseable), Entry(Credit, Undated)}

SeqsUpTo(set, n) == UNION {[1..k -> set] : k \in 0..n}

\* What the cache file holds when the app is loaded.
InitialFiles ==
    {NoFile} \cup {write_data_to_disk(raw_data) :
                     raw_data \in SeqsUpTo(InitialEntries, MaxAccounts)}

\* What one call of the upstream can do at time now.
Upstreams(now) ==
    {UpstreamError} \cup {[value |-> raw_data] :
                            raw_data \in SeqsUpTo(UpstreamEntries(now), MaxAccounts)}

(* -------------------------------------------------------------- the state *)

VARIABLES
    args,        \* self.args: the argument names the host supplies
    app,         \* "loaded", "initialized", or "failed" (initialize raised)
    scraper,     \* whether initialize constructed the MintScraper
    registered,  \* the callbacks handed to run_every
    disk,        \* mint.json: NoFile or its text
    mint_data,   \* scraper.mint_data
    now,         \* time.time(), in seconds
    published,   \* the mqtt_publish calls of the latest send_mqtt_data run
    fetched,     \* what the latest successful upstream call returned
    last,        \* the handler that ran last: its name and what it did
    threads,     \* overlapping scrape_or_load invocations: where each one is
    call         \* the latest application of a function to drawn arguments

vars == <<args, app, scraper, registered, disk, mint_data, now, published, fetched,
          last, threads, call>>

\* No invocation is in progress apart from the handler that runs.
NoThreads == <<>>

NoCall == [fn |-> "none"]

NoFetch == [never |-> TRUE]

\* The record of a handler's run: its name, the fetches it made, the
\* exception it ended with, whether it ran send_mqtt_data, and the file and
\* scraper.mint_data it started from.
Ran(op, fetches, raised, sent, old_mint_data) ==
    [op |-> op, fetches |-> fetches, raised |-> raised, sent |-> sent,
     before |-> [disk |-> disk, mint_data |-> old_mint_data]]

\* No handler has run since the clock last moved.
Idle == [op |-> "none", fetches |-> 0, raised |-> "none", sent |-> FALSE,
         before |-> [disk |-> NoFile, mint_data |-> <<>>]]

Init ==
    /\ args \in SUBSET RequiredArgs
    /\ app = "loaded"
    /\ scraper = FALSE
    /\ registered = {}
    /\ disk \in InitialFiles
    /\ mint_data = <<>>
    /\ now = 0
    /\ published = <<>>
    /\ fetched = NoFetch
    /\ last = Idle
    /\ threads = NoThreads
    /\ call = NoCall

\* The effect of one scrape_or_load call on the file and on scraper.mint_data.
Refresh(r, upstream) ==
    /\ disk' = r.file
    /\ mint_data' = r.mint_data
    /\ fetched' = IF r.fetches > 0 /\ upstream # UpstreamError THEN upstream ELSE fetched

\* initialize(): the arguments are checked (the result is not used), then
\* looked up; the scraper is built, callback_get_data registered, the first
\* scrape_or_load made; with MQTT connected the data is sent and
\* callback_send_data registered.
initialize(connected, upstream) ==
    /\ app = "loaded"
    /\ \E ret \in {_check_args(args)}, r \in {scrape_or_load(disk, <<>>, now, upstream)} :
           IF ArgsLookup(args) # "none"
           THEN /\ app' = "failed"
                /\ last' = Ran("initialize", 0, ArgsLookup(args), FALSE, <<>>)
                /\ UNCHANGED <<scraper, registered, disk, mint_data, published, fetched>>
           ELSE /\ scraper' = TRUE
                /\ Refresh(r, upstream)
                /\ IF r.raised # "none"
                   THEN /\ app' = "failed"
                        /\ registered' = {"callback_get_data"}
                        /\ UNCHANGED published
                        /\ last' = Ran("initialize", r.fetches, r.raised, FALSE, <<>>)
                   ELSE /\ app' = "initialized"
                        /\ registered' = IF connected
                                         THEN {"callback_get_data", "callback_send_data"}
                                         ELSE {"callback_get_data"}
                        /\ published' = IF connected THEN send_mqtt_data(r.mint_data)
                                                     ELSE published
                        /\ last' = Ran("initialize", r.fetches, "none", connected, <<>>)
    /\ UNCHANGED <<args, now, threads, call>>

\* callback_get_data: one scrape_or_load on the scraper of cb_args.
callback_get_data(upstream) ==
    /\ "callback_get_data" \in registered
    /\ \E r \in {scrape_or_load(disk, mint_data, now, upstream)} :
           /\ Refresh(r, upstream)
           /\ last' = Ran("callback_get_data", r.fetches, r.raised, FALSE, mint_data)
    /\ UNCHANGED <<args, app, scraper, registered, now, published, threads, call>>

\* callback_send_data: one send_mqtt_data run.
callback_send_data ==
    /\ "callback_send_data" \in registered
    /\ published' = send_mqtt_data(mint_data)
    /\ last' = Ran("callback_send_data", 0, "none", TRUE, mint_data)
    /\ UNCHANGED <<args, app, scraper, registered, disk, mint_data, now, fetched,
                   threads, call>>

\* Time passes between two callbacks, two and a half hours at a step.
TickSeconds == (5 * SecondsPerHour) \div 2

Tick ==
    /\ now < MaxTicks * TickSeconds
    /\ now' = now + TickSeconds
    /\ last' = Idle
    /\ UNCHANGED <<args, app, scraper, registered, disk, mint_data, published, fetched,
                   threads, call>>

\* The upstream answers only when it is called: the answers to draw from for
\* one scrape_or_load on the file as it is.
Answers ==
    IF Decide(disk, now).branch = "scrape" THEN Upstreams(now) ELSE {UpstreamError}

Next ==
    \/ \E connected \in BOOLEAN, upstream \in Answers : initialize(connected, upstream)
    \/ \E upstream \in Answers : callback_get_data(upstream)
    \/ callback_send_data
    \/ Tick

Spec == Init /\ [][Next]_vars


(* ------------------------------------------- _parse_mint_data on its own *)

\* The account records drawn for one application of the normaliser: names
\* and ids with spaces, underscores and capitals, ids that are numbers, and
\* a type the normaliser drops.
DrawnAccounts ==
    {D([id |-> id, name |-> S(name), fiName |-> S(<<"F">>), fiLoginId |-> S(<<"7">>),
        type |-> S(type), bankAccountType |-> S(<<"S", "A", "V", "I", "N", "G", "S">>), currency |-> S(<<"U", "S", "D">>),
        metaData |-> UpdatedAt(0)]) :
       id \in {S(<<"1">>), S(<<"b", "_", "1">>), S(<<"X">>), S(<<"x">>), N(1)},
       name \in {<<"a">>, <<"a", " ", "b">>},
       type \in {<<"B", "a", "n", "k", "A", "c", "c", "o", "u", "n", "t">>, <<"C", "r", "e", "d", "i", "t", "A", "c", "c", "o", "u", "n", "t">>}}

InitTopics ==
    /\ args = RequiredArgs
    /\ app = "loaded"
    /\ scraper = FALSE
    /\ registered = {}
    /\ disk = NoFile
    /\ mint_data = <<>>
    /\ now = 0
    /\ published = <<>>
    /\ fetched = NoFetch
    /\ last = Idle
    /\ threads = NoThreads
    /\ call \in {[fn |-> "_parse_mint_data", state |-> "called", raw_data |-> raw_data] :
                   raw_data \in SeqsUpTo(DrawnAccounts, MaxAccounts)}

\* _parse_mint_data returns.
Normalise ==
    /\ call.state = "called"
    /\ call' = [fn |-> call.fn, state |-> "returned", raw_data |-> call.raw_data,
                ret |-> _parse_mint_data(call.raw_data)]
    /\ UNCHANGED <<args, app, scraper, registered, disk, mint_data, now, published,
                   fetched, last, threads>>

SpecTopics == InitTopics /\ [][Normalise]_vars

(* ----------------------------------- _build_discovery_payload on its own *)

\* The keyword parameters a drawn call may supply, and the values it may
\* give each: None, an empty and a non-empty text, and for the on/off
\* payloads a bool.
DrawnNames == OptionalKeys \cup {"json_attributes_topic", "json_attributes_template",
                                 "state_topic"}

DrawnValues(k) ==
    {None, S(<<>>), S(<<"v">>)}
        \cup IF k \in {"payload_on", "payload_off"} THEN {B(TRUE), B(FALSE)} ELSE {}

DrawnKeywords ==
    UNION {{kw \in [names -> {None, S(<<>>), S(<<"v">>), B(TRUE), B(FALSE)}] :
              \A k \in names : kw[k] \in DrawnValues(k)} :
           names \in {n \in SUBSET DrawnNames : Cardinality(n) <= MaxSupplied}}

InitPayload ==
    /\ args = RequiredArgs
    /\ app = "loaded"
    /\ scraper = FALSE
    /\ registered = {}
    /\ disk = NoFile
    /\ mint_data = <<>>
    /\ now = 0
    /\ published = <<>>
    /\ fetched = NoFetch
    /\ last = Idle
    /\ threads = NoThreads
    /\ call \in {[fn |-> "_build_discovery_payload", state |-> "called", kw |-> kw] :
                   kw \in DrawnKeywords}

\* _build_discovery_payload returns.
BuildDiscoveryPayload ==
    /\ call.state = "called"
    /\ call' = [fn |-> call.fn, state |-> "returned", kw |-> call.kw,
                ret |-> _build_discovery_payload(Entry(Checking, UpdatedAt(0)),
                                                 <<"s", "e", "n", "s", "o", "r">>, call.kw)]
    /\ UNCHANGED <<args, app, scraper, registered, disk, mint_data, now, published,
                   fetched, last, threads>>

SpecPayload == InitPayload /\ [][BuildDiscoveryPayload]_vars

(* --------------------------------- two scrape_or_load calls that overlap *)

\* The scraper's code takes no lock, so when the host runs two refreshes at
\* once their statements interleave.  Each invocation is at one of:
\*   "exists"  before the exists("mint.json") test
\*   "load"    before load_raw_scrape_data and the age computation
\*   "scrape"  before the upstream call of scrape()
\*   "open"    before open("mint.json", "w")
\*   "write"   inside mint_output.write(...), some tokens flushed
\*   "parse"   before self.mint_data = self._parse_mint_data(raw_data)
\*   "done", "raised"
Invocations == {1, 2}

\* What a second writer's truncation leaves in front of a writer's offset.
Hole == [bracket |-> "\\0"]

\* The file after tokens are written at offset (counted in tokens).
WriteAt(text, offset, tokens) ==
    [i \in 1..Max(Len(text), offset + Len(tokens)) |->
        IF i > offset /\ i <= offset + Len(tokens) THEN tokens[i - offset]
        ELSE IF i <= Len(text) THEN text[i]
        ELSE Hole]

NotStarted == [pc |-> "exists", raw_data |-> <<>>, written |-> 0,
               read |-> FALSE, seen |-> <<>>]

\* What the upstream returns to an overlapping call.
OverlapUpstreams ==
    {UpstreamError} \cup
        {[value |-> raw_data] :
            raw_data \in SeqsUpTo({Entry(Checking, UpdatedAt(now)),
                                   Entry(Investment, UpdatedAt(now))}, MaxAccounts)}

InitOverlap ==
    /\ args = RequiredArgs
    /\ app = "initialized"
    /\ scraper = TRUE
    /\ registered = {"callback_get_data"}
    /\ now \in {0, 2 * TickSeconds}
    /\ disk \in {NoFile, write_data_to_disk(<<>>),
                 write_data_to_disk(<<Entry(Checking, UpdatedAt(0))>>)}
    /\ mint_data = <<>>
    /\ published = <<>>
    /\ fetched = NoFetch
    /\ last = Idle
    /\ threads = [t \in Invocations |-> NotStarted]
    /\ call = NoCall

Goto(t, pc) == threads' = [threads EXCEPT ![t].pc = pc]

\* What no statement of scrape_or_load touches.
AppUnchanged ==
    UNCHANGED <<args, app, scraper, registered, now, published, fetched, last, call>>

\* if exists("mint.json"):
TestExists(t) ==
    /\ threads[t].pc = "exists"
    /\ Goto(t, IF disk.exists THEN "load" ELSE "scrape")
    /\ UNCHANGED <<disk, mint_data>>
    /\ AppUnchanged

\* raw_data = self.load_raw_scrape_data("mint.json") and the age test, on
\* the text the file holds at this moment.
Load(t) ==
    /\ threads[t].pc = "load"
    /\ \E d \in {Decide(disk, now)} :
          threads' = [threads EXCEPT
                        ![t].pc = CASE d.branch = "raise" -> "raised"
                                    [] d.branch = "scrape" -> "scrape"
                                    [] d.branch = "load" -> "parse",
                        ![t].raw_data = IF d.branch = "load" THEN d.raw_data ELSE <<>>,
                        ![t].read = TRUE,
                        ![t].seen = disk.text]
    /\ UNCHANGED <<disk, mint_data>>
    /\ AppUnchanged

\* raw_data = mint.get_account_data(limit=5000)
CallUpstream(t, upstream) ==
    /\ threads[t].pc = "scrape"
    /\ threads' = [threads EXCEPT
                     ![t].pc = IF upstream = UpstreamError THEN "raised" ELSE "open",
                     ![t].raw_data = IF upstream = UpstreamError THEN <<>>
                                     ELSE upstream.value]
    /\ UNCHANGED <<disk, mint_data>>
    /\ AppUnchanged

\* open("mint.json", "w"): the file is created or truncated.
OpenForWrite(t) ==
    /\ threads[t].pc = "open"
    /\ disk' = File(<<>>)
    /\ threads' = [threads EXCEPT ![t].pc = "write", ![t].written = 0]
    /\ UNCHANGED mint_data
    /\ AppUnchanged

\* mint_output.write(json.dumps(raw_data)): the next n tokens of the text
\* reach the file at this writer's offset; after the last one the file is
\* closed and scrape() returns.
Write(t, n) ==
    /\ threads[t].pc = "write"
    /\ LET text == json_dumps(L(threads[t].raw_data))
           from == threads[t].written
       IN  /\ from + n <= Len(text)
           /\ disk' = File(WriteAt(disk.text, from, SubSeq(text, from + 1, from + n)))
           /\ threads' = [threads EXCEPT
                            ![t].written = from + n,
                            ![t].pc = IF from + n = Len(text) THEN "parse" ELSE "write"]
    /\ UNCHANGED mint_data
    /\ AppUnchanged

\* self.mint_data = self._parse_mint_data(raw_data=raw_data)
Parse(t) ==
    /\ threads[t].pc = "parse"
    /\ mint_data' = _parse_mint_data(threads[t].raw_data)
    /\ Goto(t, "done")
    /\ UNCHANGED disk
    /\ AppUnchanged

NextOverlap ==
    \/ \E t \in Invocations : TestExists(t)
    \/ \E t \in Invocations : Load(t)
    \/ \E t \in Invocations, upstream \in OverlapUpstreams : CallUpstream(t, upstream)
    \/ \E t \in Invocations : OpenForWrite(t)
    \/ \E t \in Invocations, n \in 1..(MaxAccounts + 2) : Write(t, n)
    \/ \E t \in Invocations : Parse(t)

SpecOverlap == InitOverlap /\ [][NextOverlap]_vars

(* ------------------------------------------------------------- properties *)

\* The handler that ran last made a scrape_or_load call.
Refreshed ==
    \/ last.op = "callback_get_data"
    \/ last.op = "initialize" /\ scraper

\* The entries of the list a complete file holds.
FileEntries(file) == SubSeq(file.text, 2, Len(file.text) - 1)

\* An entry carries a metaData.lastUpdatedDate that is a timestamp text.
HasTimestamp(entry) ==
    /\ "metaData" \in DOMAIN entry.v
    /\ "lastUpdatedDate" \in DOMAIN entry.v["metaData"].v
    /\ IsIso(entry.v["metaData"].v["lastUpdatedDate"].v)

\* The newest lastUpdatedDate of a file whose entries all carry one; the
\* epoch for an empty snapshot.
Newest(file) ==
    LET times == {isoparse(FileEntries(file)[i]).timestamp : i \in DOMAIN FileEntries(file)}
    IN  IF times = {} THEN 0 ELSE CHOOSE m \in times : \A t \in times : t <= m

\* The file is absent, or its newest timestamp is more than four whole
\* hours before t.
MustFetch(file, t) ==
    \/ ~file.exists
    \/ /\ \A i \in DOMAIN FileEntries(file) : HasTimestamp(FileEntries(file)[i])
       /\ (t - Newest(file)) \div 3600 > 4

\* C1: a scrape_or_load call fetches exactly when there is no file or the
\* newest lastUpdatedDate of the file is more than 4 whole hours old (an
\* empty snapshot counts as of the epoch), and then fetches once; in every
\* other case it makes no fetch and, when it returns, has left the file alone
\* and built mint_data from the entries it read.
C1_FetchExactlyWhenStale ==
    Refreshed =>
        /\ last.fetches = IF MustFetch(last.before.disk, now) THEN 1 ELSE 0
        /\ (last.fetches = 0 /\ last.raised = "none") =>
              /\ disk = last.before.disk
              /\ mint_data = _parse_mint_data(FileEntries(last.before.disk))

\* A snapshot aged four whole hours and a bit was reused, and a snapshot aged
\* five hours was fetched again.
C1_Witness ==
    /\ last.op = "callback_get_data"
    /\ last.before.disk.exists
    /\ \/ /\ last.fetches = 0
          /\ last.raised = "none"
          /\ now - Newest(last.before.disk) > 4 * 3600
       \/ /\ last.fetches = 1
          /\ FileEntries(last.before.disk) # <<>>
          /\ now - Newest(last.before.disk) = 5 * 3600

\* C2: the file is the text of what the latest successful fetch returned,
\* entry for entry, and a scrape_or_load call that made no successful fetch
\* left the file as it was.
C2_FileIsLatestFetch ==
    /\ fetched # NoFetch =>
          disk = [exists |-> TRUE, text |-> <<LBracket>> \o fetched.value \o <<RBracket>>]
    /\ (Refreshed /\ (last.fetches = 0 \/ last.raised # "none")) =>
          disk = last.before.disk

\* A fetch replaced a file that held other entries.
C2_Witness ==
    /\ Refreshed
    /\ last.fetches = 1
    /\ last.raised = "none"
    /\ last.before.disk.exists
    /\ FileEntries(last.before.disk) # <<>>
    /\ fetched.value # <<>>
    /\ disk # last.before.disk

\* The file holds an entry without a parseable metaData.lastUpdatedDate.
HasBadEntry(file) ==
    /\ file.exists
    /\ \E i \in DOMAIN FileEntries(file) : ~HasTimestamp(FileEntries(file)[i])

\* C3: when an entry of the file has no parseable lastUpdatedDate, whatever
\* its position, scrape_or_load raises, makes no fetch and leaves the file
\* and mint_data as they were.
C3_BadEntryRaises ==
    (Refreshed /\ HasBadEntry(last.before.disk)) =>
        /\ last.raised \in {"KeyError", "ValueError"}
        /\ last.fetches = 0
        /\ disk = last.before.disk
        /\ mint_data = last.before.mint_data

\* A refresh raised on a file whose first entry is fresh and whose second
\* entry is bad, with records in mint_data.
C3_Witness ==
    /\ last.op = "callback_get_data"
    /\ last.raised \in {"KeyError", "ValueError"}
    /\ mint_data # <<>>
    /\ Len(FileEntries(disk)) = 2
    /\ HasTimestamp(FileEntries(disk)[1])
    /\ ~HasTimestamp(FileEntries(disk)[2])

\* C4: with a required argument missing, initialize ends before it builds
\* the scraper: no callback is registered, no fetch is made, nothing is
\* published.
C4_MissingArgAborts ==
    (args # {"mint_mfa_token", "mint_password", "mint_email"}) =>
        /\ ~scraper
        /\ registered = {}
        /\ last.fetches = 0
        /\ fetched = NoFetch
        /\ published = <<>>
        /\ app # "initialized"

\* initialize ran with two of the three arguments and raised.
C4_Witness ==
    /\ Cardinality(args) = 2
    /\ last.op = "initialize"
    /\ app = "failed"

\* The positions of the entries the normaliser keeps.
EligiblePositions(raw_data) ==
    {i \in DOMAIN raw_data :
        raw_data[i].v["type"] \in {S(<<"B", "a", "n", "k", "A", "c", "c", "o", "u", "n", "t">>),
                                   S(<<"I", "n", "v", "e", "s", "t", "m", "e", "n", "t",
                                       "A", "c", "c", "o", "u", "n", "t">>)}}

\* The j-th kept position, counting from the front.
KeptPosition(raw_data, j) ==
    CHOOSE i \in EligiblePositions(raw_data) :
        Cardinality({k \in EligiblePositions(raw_data) : k < i}) = j - 1

\* C7: the records of mint_data are, in order, those of the entries of the
\* snapshot whose type is BankAccount or InvestmentAccount, one each.
C7_OneRecordPerEligibleEntry ==
    (Refreshed /\ last.raised = "none") =>
        LET raw_data == FileEntries(disk)
        IN  /\ Len(mint_data) = Cardinality(EligiblePositions(raw_data))
            /\ \A j \in DOMAIN mint_data :
                  mint_data[j].v["state_payload"] = raw_data[KeptPosition(raw_data, j)]

\* A snapshot of two different eligible accounts was normalised into two
\* records.
C7_Witness ==
    /\ Refreshed
    /\ last.raised = "none"
    /\ Len(FileEntries(disk)) = 2
    /\ Len(mint_data) = 2
    /\ mint_data[1] # mint_data[2]

PublishOrder ==
    <<[topic |-> "discovery_topic_balance", payload |-> "discovery_payload_balance"],
      [topic |-> "discovery_topic_update", payload |-> "discovery_payload_update"],
      [topic |-> "discovery_topic_error", payload |-> "discovery_payload_error"],
      [topic |-> "state_topic", payload |-> "state_payload"],
      [topic |-> "attribute_topic", payload |-> "attribute_payload"]>>

\* C8: a send_mqtt_data run publishes five messages per record, record by
\* record in mint_data order: balance discovery, update discovery, error
\* discovery, state, attributes, each on the record's topic of that kind.
C8_FivePublishesInOrder ==
    last.sent =>
        /\ Len(published) = 5 * Len(mint_data)
        /\ \A i \in DOMAIN mint_data : \A k \in 1..5 :
              LET p == published[5 * (i - 1) + k]
              IN  /\ p.topic = mint_data[i].v[PublishOrder[k].topic]
                  /\ p.payload =
                       <<_convert_bool_to_string(mint_data[i].v[PublishOrder[k].payload])>>

\* A run sent two different records.
C8_Witness ==
    /\ last.sent
    /\ Len(mint_data) = 2
    /\ mint_data[1] # mint_data[2]

\* C10: what is published on the state_topic of a record's error discovery
\* payload carries the isError key whenever the account record has it.
C10_ErrorTopicCarriesIsError ==
    last.sent =>
        \A i \in DOMAIN mint_data :
            "isError" \in DOMAIN mint_data[i].v["state_payload"].v =>
                \A k \in 1..5 :
                    LET p == published[5 * (i - 1) + k]
                    IN  p.topic = mint_data[i].v["discovery_payload_error"].v["state_topic"]
                            => "isError" \in DOMAIN p.payload[1].v

\* The text of an account's id as the topics interpolate it.
IdText(account) == Fmt(account.v["id"])

\* The eligible entries of the drawn snapshot, by position.
DrawnEligible == EligiblePositions(call.raw_data)

\* C5 as stated: when the eligible accounts have pairwise distinct ids, no
\* two records share a state_topic.
C5_DistinctIdsDistinctTopics ==
    (call.fn = "_parse_mint_data" /\ call.state = "returned") =>
        ((\A i, j \in DrawnEligible :
              i # j => call.raw_data[i].v["id"] # call.raw_data[j].v["id"])
         => \A i, j \in DOMAIN call.ret :
              i # j => call.ret[i].v["state_topic"] # call.ret[j].v["state_topic"])

\* C5, amended: when the ids of the eligible accounts, as text, hold neither
\* a space nor an underscore and are pairwise distinct ignoring letter case,
\* no two records share a state_topic.
C5_PlainIdsDistinctTopics ==
    (call.fn = "_parse_mint_data" /\ call.state = "returned") =>
        ((/\ \A i \in DrawnEligible :
                \A n \in DOMAIN IdText(call.raw_data[i]) :
                    IdText(call.raw_data[i])[n] \notin {" ", "_"}
          /\ \A i, j \in DrawnEligible :
                i # j => Lower(IdText(call.raw_data[i])) # Lower(IdText(call.raw_data[j])))
         => \A i, j \in DOMAIN call.ret :
              i # j => call.ret[i].v["state_topic"] # call.ret[j].v["state_topic"])

\* Two eligible accounts of the same name with the ids "1" and "X" were
\* normalised.
C5_Witness ==
    /\ call.fn = "_parse_mint_data"
    /\ call.state = "returned"
    /\ Len(call.ret) = 2
    /\ call.raw_data[1].v["name"] = call.raw_data[2].v["name"]
    /\ call.raw_data[1].v["id"] = S(<<"1">>)
    /\ call.raw_data[2].v["id"] = S(<<"X">>)

\* An argument was supplied and is neither None, empty nor False.
Supplied(k) ==
    /\ k \in DOMAIN call.kw
    /\ call.kw[k] \notin {None, S(<<>>), B(FALSE)}

\* C6 as stated: each of the eleven optional fields is a key of the payload
\* exactly when the argument of the same name was supplied and is non-empty.
C6_KeyIffOwnArgument ==
    (call.fn = "_build_discovery_payload" /\ call.state = "returned") =>
        \A k \in {"unit_of_measurement", "icon", "payload_off", "entity_category",
                  "object_id", "state_class", "expire_after", "payload_on",
                  "device_class", "json_attributes_topic", "json_attributes_template"} :
            (k \in DOMAIN call.ret.v) <=> Supplied(k)

\* C6, amended: ten of the fields are keys exactly when their own argument
\* was supplied and is non-empty, and then carry its value;
\* json_attributes_topic is a key exactly when json_attributes_template was
\* supplied and is non-empty, and carries its own argument if that is
\* non-empty and the state_topic argument (empty by default) otherwise.
C6_KeyIffArgumentOrTemplate ==
    (call.fn = "_build_discovery_payload" /\ call.state = "returned") =>
        /\ \A k \in {"unit_of_measurement", "icon", "payload_off", "entity_category",
                     "object_id", "state_class", "expire_after", "payload_on",
                     "device_class", "json_attributes_template"} :
              /\ (k \in DOMAIN call.ret.v) <=> Supplied(k)
              /\ Supplied(k) => call.ret.v[k] = call.kw[k]
        /\ ("json_attributes_topic" \in DOMAIN call.ret.v)
              <=> Supplied("json_attributes_template")
        /\ Supplied("json_attributes_template") =>
              call.ret.v["json_attributes_topic"] =
                 IF Supplied("json_attributes_topic")
                 THEN call.kw["json_attributes_topic"]
                 ELSE IF "state_topic" \in DOMAIN call.kw
                      THEN call.kw["state_topic"]
                      ELSE S(<<>>)

\* A payload was built with a template and an empty expire_after, and
\* without an attributes topic.
C6_Witness ==
    /\ call.fn = "_build_discovery_payload"
    /\ call.state = "returned"
    /\ Supplied("json_attributes_template")
    /\ "json_attributes_topic" \notin DOMAIN call.kw
    /\ "expire_after" \in DOMAIN call.kw
    /\ "expire_after" \notin DOMAIN call.ret.v
    /\ "json_attributes_topic" \in DOMAIN call.ret.v

\* C9: no read of the file by an overlapping scrape_or_load sees anything
\* but a whole snapshot: the text it reads is the complete text of a list.
C9_ReadsSeeWholeSnapshots ==
    \A t \in DOMAIN threads : threads[t].read => IsListText(threads[t].seen)

====
